---- MODULE Spec2Model ----
(***************************************************************************)
(* Model of server/config/store_config.go: the StoreConfigManager, which   *)
(* holds the latest StoreConfig of a store behind one pointer-sized slot   *)
(* (written with atomic.StorePointer, read by GetStoreConfig), the Load    *)
(* operation that fetches and decodes a new StoreConfig, and the four      *)
(* accessors of StoreConfig with their defaults.                           *)
(*                                                                         *)
(* Goroutines are the elements of Threads.  Every goroutine repeatedly     *)
(* calls UpdateConfig, GetStoreConfig or Load; a call is split into steps  *)
(* at each access to shared memory and at each blocking call.              *)
(***************************************************************************)
EXTENDS Integers, Sequences, FiniteSets, TLC

(* ------------------------------ bounds -------------------------------- *)

\* number of goroutines sharing the manager
NumThreads == 2

\* number of StoreConfig objects allocated in one run
MaxSnapshots == 2

\* number of calls begun in one run, over all goroutines
MaxCalls == 3

Threads == 1..NumThreads

(* --------------------------- program values --------------------------- *)

\* the nil pointer; StoreConfig references are 1, 2, ... (indices of heap)
Nil == 0

\* the one StoreConfigManager the goroutines share (a non-nil receiver)
Mgr == 1

\* a nil error
NoErr == "nil"

defaultRegionMaxSize == 144

defaultRegionSplitSize == 96

defaultRegionMaxKey == 1440000

defaultRegionSplitKey == 960000

\* Go strings are sequences of one-character strings
EmptyText == << >>

\* the zero value of StoreConfig (var cfg StoreConfig)
ZeroStoreConfig ==
    [RegionMaxSize |-> EmptyText, RegionSplitSize |-> EmptyText,
     RegionMaxKeys |-> 0, RegionSplitKeys |-> 0]

FieldNames == {"RegionMaxSize", "RegionSplitSize", "RegionMaxKeys", "RegionSplitKeys"}

(* ------------------------------ inputs -------------------------------- *)

T200MB == <<"2", "0", "0", "M", "B">>
T100MB == <<"1", "0", "0", "M", "B">>
T1GB == <<"1", "G", "B">>
T512KB == <<"5", "1", "2", "K", "B">>

\* the snapshots a caller passes to UpdateConfig
UpdateInputs ==
    { [RegionMaxSize |-> T1GB, RegionSplitSize |-> T512KB,
       RegionMaxKeys |-> 9000, RegionSplitKeys |-> 6000] }

JString(s) == [t |-> "string", s |-> s, n |-> 0]
JNumber(n) == [t |-> "number", s |-> EmptyText, n |-> n]

NoFields == [k \in {} |-> JNumber(0)]

\* a response body: json says whether the bytes are syntactically valid
\* JSON; fields are the members of its "coprocessor" object
NotJSON == [json |-> FALSE, fields |-> NoFields]

DocEmpty == [json |-> TRUE, fields |-> NoFields]

DocPartial ==
    [json |-> TRUE,
     fields |-> ("region-max-size" :> JString(T200MB)) @@
                ("region-max-keys" :> JNumber(5000)) @@
                ("unknown-field" :> JNumber(1))]

\* region-max-keys is a JSON string: an UnmarshalTypeError
DocTypeErr ==
    [json |-> TRUE,
     fields |-> ("region-max-size" :> JString(T100MB)) @@
                ("region-max-keys" :> JString(T200MB))]

Bodies == {NotJSON, DocEmpty, DocPartial, DocTypeErr}

\* the *SecurityConfig given to NewStoreConfigManager: nil, one whose
\* ToTLSConfig gives a TLS configuration, one whose ToTLSConfig fails, and
\* one whose ToTLSConfig gives neither a configuration nor an error
SecurityConfigs == {"nil", "valid", "invalid", "empty"}

\* the status addresses Load is called with
Address1 == "tikv-1:20180"
Address2 == "tikv-2:20180"
Addresses == {Address1, Address2}

\* the status codes of the responses (net/http: StatusOK,
\* StatusInternalServerError)
StatusOK == 200

StatusInternalServerError == 500

StatusCodes == {StatusOK, StatusInternalServerError}

(* ------------------------------- state -------------------------------- *)

VARIABLES
    config,   \* m.config: Nil or a reference to a StoreConfig
    schema,   \* m.schema
    client,   \* m.client: the transport of the manager's http.Client
    heap,     \* the StoreConfig objects allocated so far, by reference
    stores,   \* history: the references stored into m.config, in order
    fetched,  \* history, kept under SpecLoad: the fetch (request and body
              \* read) that completed last: the goroutine whose Load it is,
              \* and once that Load has decoded it, the snapshot
    seen,     \* history, kept under SpecReads: what the last GetStoreConfig
              \* on the manager returned to each goroutine (now), and what
              \* the one before it did (before); Nil before any
    passed,   \* history: by reference, the value handed to UpdateConfig, by a
              \* caller ("Update") or by Load, which decoded it from body
    pc,       \* the position of each goroutine
    m,        \* the receiver of each goroutine's call: Mgr or Nil
    c,        \* the *StoreConfig of each goroutine's call
    body,     \* the bytes ReadAll gave to each goroutine's Load
    url,      \* the URL each goroutine's Load has built
    resp,     \* the response each goroutine's Load holds: its status code
              \* and whether its body is open
    mark,     \* history: Len(stores) when the goroutine's call began
    calls,    \* history: the number of calls begun so far
    last      \* history: the call that returned in the last step and its
              \* result; NoLast when the last step was no return

vars == <<config, schema, client, heap, stores, passed, fetched, seen, pc, m, c, body, url, resp,
          mark, calls, last>>

\* no response: resp is nil
NoResp == [status |-> 0, open |-> FALSE]

\* no fetch has completed, or the last one could not be decoded
NoFetch == [t |-> 0, ref |-> Nil]

\* no call returned in the last step
NoLast ==
    [t |-> 0, op |-> "none", m |-> Nil, c |-> Nil, val |-> Nil, err |-> NoErr,
     from |-> 0, to |-> 0, status |-> 0, closes |-> 0, sec |-> "none"]

(* --------------------------- pure functions --------------------------- *)

\* faulty struct tags: the tag of RegionMaxKeys is misspelt
JSONKeyMisspelt(f) ==
    CASE f = "RegionMaxSize" -> "region-max-size"
      [] f = "RegionSplitSize" -> "region-split-size"
      [] f = "RegionMaxKeys" -> "region-max-key"
      [] f = "RegionSplitKeys" -> "region-split-keys"

\* the JSON member that decodes into each field, and the JSON type it needs
JSONKey(f) ==
    CASE f = "RegionMaxSize" -> "region-max-size"
      [] f = "RegionSplitSize" -> "region-split-size"
      [] f = "RegionMaxKeys" -> "region-max-keys"
      [] f = "RegionSplitKeys" -> "region-split-keys"

JSONType(f) ==
    IF f \in {"RegionMaxSize", "RegionSplitSize"} THEN "string" ELSE "number"

\* the value of the JSON value v of the right type, as the Go field holds it
FieldValue(f, v) == IF JSONType(f) = "string" THEN v.s ELSE v.n

\* json.Unmarshal(body, &cfg) with cfg holding init: invalid JSON leaves cfg
\* alone; otherwise every known member of the right type is stored into its
\* field, unknown members are skipped, missing members leave the field as it
\* was, and a member of the wrong type is skipped and reported at the end
Unmarshal(b, init) ==
    IF ~b.json
    THEN [err |-> "syntax", cfg |-> init]
    ELSE LET present(f) == JSONKey(f) \in DOMAIN b.fields
             welltyped(f) == b.fields[JSONKey(f)].t = JSONType(f)
         IN [err |-> IF \E f \in FieldNames : present(f) /\ ~welltyped(f)
                     THEN "type" ELSE NoErr,
             cfg |-> [f \in FieldNames |->
                        IF present(f) /\ welltyped(f)
                        THEN FieldValue(f, b.fields[JSONKey(f)])
                        ELSE init[f]]]

Digits == {"0", "1", "2", "3", "4", "5", "6", "7", "8", "9"}

DigitValue(ch) ==
    CASE ch = "0" -> 0 [] ch = "1" -> 1 [] ch = "2" -> 2 [] ch = "3" -> 3
      [] ch = "4" -> 4 [] ch = "5" -> 5 [] ch = "6" -> 6 [] ch = "7" -> 7
      [] ch = "8" -> 8 [] ch = "9" -> 9

\* the length of the longest prefix of text made of digits
RECURSIVE DigitsLen(_)
DigitsLen(text) ==
    IF text = << >> \/ Head(text) \notin Digits
    THEN 0
    ELSE 1 + DigitsLen(Tail(text))

\* the number a sequence of digits denotes
RECURSIVE DigitsValue(_)
DigitsValue(ds) ==
    IF ds = << >>
    THEN 0
    ELSE 10 * DigitsValue(SubSeq(ds, 1, Len(ds) - 1)) + DigitValue(ds[Len(ds)])

\* the power of two a unit suffix multiplies by, -1 for an unknown suffix
UnitShift(u) ==
    CASE u = << >> -> 0
      [] u = <<"B">> -> 0
      [] u = <<"K", "B">> -> 10
      [] u = <<"M", "B">> -> 20
      [] u = <<"G", "B">> -> 30
      [] OTHER -> -1

\* typeutil.ParseMBFromText(text, value): the size text in whole megabytes,
\* value when the text is no "<number><unit>"
ParseMBFromText(text, value) ==
    LET k == DigitsLen(text)
        n == DigitsValue(SubSeq(text, 1, k))
        sh == UnitShift(SubSeq(text, k + 1, Len(text)))
    IN IF k = 0 \/ sh < 0
       THEN value
       ELSE IF sh >= 20 THEN n * 2^(sh - 20) ELSE n \div 2^(20 - sh)

\* Go's int and uint64 are 64 bits wide and TLC's integers 32. The model
\* writes the 64-bit value q * 2^62 + r, with r of small magnitude, as
\* q * 2^28 + r: the order, the sign and the sums of such values are kept,
\* and 2^64 is written Wrap.
Wrap == 2^30

\* math.MinInt64 and math.MaxInt64, as the model writes them
MinInt == -(2^29)
MaxInt == 2^29 - 1

\* a faulty conversion: a negative count is taken to be zero
Uint64Clamped(v) == IF v < 0 THEN 0 ELSE v

\* uint64(v) of a Go int v: the same 64 bits read as an unsigned number,
\* which is v when v is not negative and v + 2^64 when it is
Uint64(v) == v % Wrap

\* (c *StoreConfig).GetRegionMaxSize(), c a reference or Nil
GetRegionMaxSize(ref) ==
    IF ref = Nil \/ Len(heap[ref].RegionMaxSize) = 0
    THEN defaultRegionMaxSize
    ELSE ParseMBFromText(heap[ref].RegionMaxSize, defaultRegionMaxSize)

\* a faulty GetRegionSplitSize: the default of the max size is used
GetRegionSplitSizeMaxDefault(ref) ==
    IF ref = Nil \/ Len(heap[ref].RegionSplitSize) = 0
    THEN defaultRegionMaxSize
    ELSE ParseMBFromText(heap[ref].RegionSplitSize, defaultRegionMaxSize)

GetRegionSplitSize(ref) ==
    IF ref = Nil \/ Len(heap[ref].RegionSplitSize) = 0
    THEN defaultRegionSplitSize
    ELSE ParseMBFromText(heap[ref].RegionSplitSize, defaultRegionSplitSize)

GetRegionSplitKeys(ref) ==
    IF ref = Nil \/ heap[ref].RegionSplitKeys = 0
    THEN defaultRegionSplitKey
    ELSE Uint64(heap[ref].RegionSplitKeys)

\* a faulty GetRegionMaxKeys: a zero field is returned as it is
GetRegionMaxKeysNoZeroCheck(ref) ==
    IF ref = Nil
    THEN defaultRegionMaxKey
    ELSE Uint64(heap[ref].RegionMaxKeys)

GetRegionMaxKeys(ref) ==
    IF ref = Nil \/ heap[ref].RegionMaxKeys = 0
    THEN defaultRegionMaxKey
    ELSE Uint64(heap[ref].RegionMaxKeys)

\* a faulty NewStoreConfigManager: the scheme is https whenever a security
\* configuration is given, whatever ToTLSConfig returns
NewSchemaWhenGiven(s) == IF s = "nil" THEN "http" ELSE "https"

\* NewStoreConfigManager(config).schema
NewSchema(s) == IF s = "valid" THEN "https" ELSE "http"

\* NewStoreConfigManager(config).client: the zero http.Client, which uses the
\* default transport, or one whose Transport carries the TLS configuration
NewClient(s) == IF s = "valid" THEN "tls" ELSE "plain"

\* fmt.Sprintf("%s://%s/config", schema, statusAddress), in its pieces
URL(scheme, statusAddress) == <<scheme, "://", statusAddress, "/config">>

(* ------------------------------ actions ------------------------------- *)

\* no goroutine is inside a call, and the histories of the calls are empty
Idle ==
    /\ fetched = NoFetch
    /\ seen = [t \in Threads |-> [before |-> Nil, now |-> Nil]]
    /\ pc = [t \in Threads |-> "idle"]
    /\ m = [t \in Threads |-> Nil]
    /\ c = [t \in Threads |-> Nil]
    /\ body = [t \in Threads |-> NotJSON]
    /\ url = [t \in Threads |-> EmptyText]
    /\ resp = [t \in Threads |-> NoResp]
    /\ mark = [t \in Threads |-> 0]
    /\ calls = 0
    /\ last = NoLast

\* the slot is empty, as NewStoreConfigManager leaves it, no StoreConfig has
\* been allocated, and no goroutine has called
NoCalls ==
    /\ config = Nil
    /\ heap = << >>
    /\ stores = << >>
    /\ passed = << >>
    /\ Idle

\* the manager has been built from some security configuration
Init ==
    /\ \E s \in SecurityConfigs :
          /\ schema = NewSchema(s)
          /\ client = NewClient(s)
    /\ NoCalls

Built == schema # ""

\* manager := NewStoreConfigManager(config), with s the security
\* configuration: the scheme and the client are set once, here
NewStoreConfigManager(s) ==
    /\ ~Built
    /\ schema' = NewSchema(s)
    /\ client' = NewClient(s)
    /\ last' = [NoLast EXCEPT !.op = "New", !.sec = s]
    /\ UNCHANGED <<config, heap, stores, passed, pc, m, c, body, url, resp, mark, calls>>

\* goroutine t begins a call on receiver mgr with argument ref
Call(t, label, mgr, ref) ==
    /\ pc[t] = "idle"
    /\ calls < MaxCalls
    /\ calls' = calls + 1
    /\ pc' = [pc EXCEPT ![t] = label]
    /\ m' = [m EXCEPT ![t] = mgr]
    /\ c' = [c EXCEPT ![t] = ref]
    /\ mark' = [mark EXCEPT ![t] = Len(stores)]
    /\ last' = NoLast
    /\ UNCHANGED <<body, resp>>

\* a faulty Load: the body is closed at the end of Load, not by a defer
DeferredAtEndOnly(t) ==
    IF pc[t] = "load_update" THEN <<"Close">> ELSE << >>

\* the deferred calls of goroutine t's call: defer resp.Body.Close(), which
\* Load reaches once the request has given a response
Deferred(t) ==
    IF pc[t] \in {"load_read", "load_unmarshal", "load_update"}
    THEN <<"Close">>
    ELSE << >>

\* goroutine t returns from its call, which runs the deferred calls; rec
\* describes the call and its result
Return(t, rec) ==
    /\ pc' = [pc EXCEPT ![t] = "idle"]
    /\ last' = rec
    /\ m' = [m EXCEPT ![t] = Nil]
    /\ c' = [c EXCEPT ![t] = Nil]
    /\ body' = [body EXCEPT ![t] = NotJSON]
    /\ url' = [url EXCEPT ![t] = EmptyText]
    /\ resp' = [resp EXCEPT ![t] = IF Deferred(t) = << >> THEN @ ELSE NoResp]
    /\ mark' = [mark EXCEPT ![t] = 0]
    /\ UNCHANGED calls

\* from and to number the stores: from stores had happened when the call
\* began and to when it returned (kept for the calls that read or wrote the
\* slot: 0 and 0 otherwise)
UpdateResult(t) ==
    [NoLast EXCEPT
       !.t = t, !.op = "Update", !.m = m[t], !.c = c[t],
       !.from = IF c[t] = Nil \/ m[t] = Nil THEN 0 ELSE mark[t],
       !.to = IF c[t] = Nil \/ m[t] = Nil THEN 0 ELSE Len(stores')]

\* GetStoreConfig returned val
GetResult(t, val) ==
    [NoLast EXCEPT
       !.t = t, !.op = "Get", !.m = m[t], !.val = val,
       !.from = mark[t], !.to = Len(stores)]

\* Load returned err, after storing ref unless Nil; status is the status code
\* of the response it got (0 without a response) and closes the number of
\* times the call closed the body of the response
LoadResult(t, ref, err) ==
    [NoLast EXCEPT
       !.t = t, !.op = "Load", !.m = m[t], !.c = ref, !.err = err,
       !.from = IF ref = Nil THEN 0 ELSE mark[t],
       !.to = IF ref = Nil THEN 0 ELSE Len(stores'),
       !.status = resp[t].status,
       !.closes = Len(Deferred(t))]

\* a caller builds a StoreConfig (or takes nil) and calls mgr.UpdateConfig
CallUpdateConfig(t) ==
    \E mgr \in {Mgr, Nil} :
        \/ /\ Call(t, "update", mgr, Nil)
           /\ UNCHANGED <<config, schema, client, heap, stores, passed, url>>
        \/ /\ Len(heap) < MaxSnapshots
           /\ \E in \in UpdateInputs :
                /\ heap' = Append(heap, in)
                /\ passed' = Append(passed, [by |-> "Update", val |-> in,
                                              body |-> NotJSON])
           /\ Call(t, "update", mgr, Len(heap) + 1)
           /\ UNCHANGED <<config, schema, client, stores, url>>

\* history: the stores after goroutine t's UpdateConfig has run; a call
\* with a non-nil receiver and a non-nil argument is a store, in the order
\* in which the calls run
Stored(t) ==
    IF c[t] = Nil \/ m[t] = Nil THEN stores ELSE Append(stores, c[t])

\* a faulty UpdateConfig: once a snapshot is held, the new one is copied
\* into the held object field by field, and the copy is seen half done
UpdateConfigBodyInPlace(t) ==
    IF c[t] = Nil \/ m[t] = Nil
    THEN UNCHANGED <<config, heap>>
    ELSE IF config = Nil
         THEN config' = c[t] /\ UNCHANGED heap
         ELSE /\ heap' = [heap EXCEPT ![config] =
                           [@ EXCEPT !.RegionMaxSize = heap[c[t]].RegionMaxSize,
                                     !.RegionMaxKeys = heap[c[t]].RegionMaxKeys]]
              /\ UNCHANGED config

\* a faulty UpdateConfig: the slot is written only while it is still nil
UpdateConfigBodyFirstWins(t) ==
    /\ config' = IF c[t] = Nil \/ m[t] = Nil \/ config # Nil THEN config ELSE c[t]
    /\ UNCHANGED heap

\* a faulty UpdateConfig: the argument is not checked for nil
UpdateConfigBodyNoNilCheck(t) ==
    /\ config' = IF m[t] = Nil THEN config ELSE c[t]
    /\ UNCHANGED heap

\* the body of UpdateConfig run by goroutine t: the nil checks and the
\* atomic.StorePointer of c[t] into m.config
UpdateConfigBody(t) ==
    /\ config' = IF c[t] = Nil \/ m[t] = Nil THEN config ELSE c[t]
    /\ UNCHANGED heap

UpdateConfig(t) ==
    /\ pc[t] = "update"
    /\ UpdateConfigBody(t)
    /\ stores' = Stored(t)
    /\ Return(t, UpdateResult(t))
    /\ UNCHANGED <<schema, client, passed>>

CallGetStoreConfig(t) ==
    /\ \E mgr \in {Mgr, Nil} : Call(t, "get_check", mgr, Nil)
    /\ UNCHANGED <<config, schema, client, heap, stores, passed, url>>

\* a faulty GetStoreConfig: the reader waits while a writer is inside
\* UpdateConfig
GetStoreConfigCheckWaits(t) ==
    /\ pc[t] = "get_check"
    /\ \A w \in Threads : pc[w] \notin {"update", "load_update"}
    /\ IF m[t] = Nil \/ config = Nil
       THEN Return(t, GetResult(t, Nil))
       ELSE /\ pc' = [pc EXCEPT ![t] = "get_load"]
            /\ UNCHANGED <<m, c, body, url, resp, mark, calls>>
            /\ last' = NoLast
    /\ UNCHANGED <<config, schema, client, heap, stores, passed>>

\* a faulty GetStoreConfig: the slot is guarded by a lock that the reader
\* only tries to take, and nil is returned while a writer holds it
GetStoreConfigCheckTryLock(t) ==
    /\ pc[t] = "get_check"
    /\ IF \/ m[t] = Nil
          \/ config = Nil
          \/ \E w \in Threads : pc[w] \in {"update", "load_update"}
       THEN Return(t, GetResult(t, Nil))
       ELSE /\ pc' = [pc EXCEPT ![t] = "get_load"]
            /\ UNCHANGED <<m, c, body, url, resp, mark, calls>>
            /\ last' = NoLast
    /\ UNCHANGED <<config, schema, client, heap, stores, passed>>

\* if m == nil || m.config == nil { return nil }: the plain read of the slot.
\* It is not ordered with the stores of the writers; it is one aligned
\* word-sized load, which gives the value the slot holds when it runs, and
\* the writers may store before it, after it, and between it and the atomic
\* load that follows
GetStoreConfigCheck(t) ==
    /\ pc[t] = "get_check"
    /\ IF m[t] = Nil \/ config = Nil
       THEN Return(t, GetResult(t, Nil))
       ELSE /\ pc' = [pc EXCEPT ![t] = "get_load"]
            /\ UNCHANGED <<m, c, body, url, resp, mark, calls>>
            /\ last' = NoLast
    /\ UNCHANGED <<config, schema, client, heap, stores, passed>>

\* config := atomic.LoadPointer(&m.config); return (*StoreConfig)(config)
GetStoreConfigLoad(t) ==
    /\ pc[t] = "get_load"
    /\ Return(t, GetResult(t, config))
    /\ UNCHANGED <<config, schema, client, heap, stores, passed>>

\* Load(statusAddress) begins: url := fmt.Sprintf("%s://%s/config", m.schema,
\* statusAddress) (the receiver is the manager: Load reads m.schema before
\* anything else)
CallLoad(t, statusAddress) ==
    /\ Call(t, "load_get", Mgr, Nil)
    /\ url' = [url EXCEPT ![t] = URL(schema, statusAddress)]
    /\ UNCHANGED <<config, schema, client, heap, stores, passed>>

\* a faulty Load: a failed request drops the held snapshot
LoadGetClearsOnError(t, status) ==
    /\ pc[t] = "load_get"
    /\ \/ /\ Return(t, LoadResult(t, Nil, "get"))
          /\ config' = Nil
       \/ /\ pc' = [pc EXCEPT ![t] = "load_read"]
          /\ resp' = [resp EXCEPT ![t] = [status |-> status, open |-> TRUE]]
          /\ UNCHANGED <<m, c, body, url, mark, calls, config>>
          /\ last' = NoLast
    /\ UNCHANGED <<schema, client, heap, stores, passed>>

\* a faulty Load: a failed request makes the manager fall back to http
LoadGetFallsBack(t, status) ==
    /\ pc[t] = "load_get"
    /\ \/ /\ Return(t, LoadResult(t, Nil, "get"))
          /\ schema' = "http"
          /\ client' = "plain"
       \/ /\ pc' = [pc EXCEPT ![t] = "load_read"]
          /\ resp' = [resp EXCEPT ![t] = [status |-> status, open |-> TRUE]]
          /\ UNCHANGED <<m, c, body, url, mark, calls, schema, client>>
          /\ last' = NoLast
    /\ UNCHANGED <<config, heap, stores, passed>>

\* a faulty Load: a response whose status is not 200 is taken as a failure
LoadGetChecksStatus(t, status) ==
    /\ pc[t] = "load_get"
    /\ \/ Return(t, LoadResult(t, Nil, "get"))
       \/ /\ status # StatusOK
          /\ Return(t, LoadResult(t, Nil, "status"))
       \/ /\ status = StatusOK
          /\ pc' = [pc EXCEPT ![t] = "load_read"]
          /\ resp' = [resp EXCEPT ![t] = [status |-> status, open |-> TRUE]]
          /\ UNCHANGED <<m, c, body, url, mark, calls>>
          /\ last' = NoLast
    /\ UNCHANGED <<config, schema, client, heap, stores, passed>>

\* resp, err := m.client.Get(url): the request fails, or a response with
\* some status code arrives, whose body is open; defer resp.Body.Close()
LoadGet(t, status) ==
    /\ pc[t] = "load_get"
    /\ \/ Return(t, LoadResult(t, Nil, "get"))
       \/ /\ pc' = [pc EXCEPT ![t] = "load_read"]
          /\ resp' = [resp EXCEPT ![t] = [status |-> status, open |-> TRUE]]
          /\ UNCHANGED <<m, c, body, url, mark, calls>>
          /\ last' = NoLast
    /\ UNCHANGED <<config, schema, client, heap, stores, passed>>

\* body, err := ioutil.ReadAll(resp.Body): the read fails or gives the bytes
LoadReadAll(t) ==
    /\ pc[t] = "load_read"
    /\ \/ Return(t, LoadResult(t, Nil, "read"))
       \/ /\ \E b \in Bodies : body' = [body EXCEPT ![t] = b]
          /\ pc' = [pc EXCEPT ![t] = "load_unmarshal"]
          /\ UNCHANGED <<m, c, url, resp, mark, calls>>
          /\ last' = NoLast
    /\ UNCHANGED <<config, schema, client, heap, stores, passed>>

\* a faulty Load: the document is decoded over a copy of the held snapshot
LoadNewConfigFromCurrent(t) ==
    IF config = Nil THEN ZeroStoreConfig ELSE heap[config]

\* var cfg StoreConfig: the value json.Unmarshal decodes into
LoadNewConfig(t) == ZeroStoreConfig

\* a faulty Load: the error of json.Unmarshal is not checked
LoadUnmarshalIgnoresError(t) ==
    /\ pc[t] = "load_unmarshal"
    /\ Len(heap) < MaxSnapshots
    /\ LET r == Unmarshal(body[t], LoadNewConfig(t))
       IN /\ heap' = Append(heap, r.cfg)
          /\ passed' = Append(passed, [by |-> "Load", val |-> r.cfg,
                                        body |-> body[t]])
    /\ pc' = [pc EXCEPT ![t] = "load_update"]
    /\ c' = [c EXCEPT ![t] = Len(heap) + 1]
    /\ UNCHANGED <<m, body, url, resp, mark, calls>>
    /\ last' = NoLast
    /\ UNCHANGED <<config, schema, client, stores>>

\* a faulty Load: once a snapshot is held, the document is decoded into the
\* held object and that object is stored again
LoadUnmarshalInPlace(t) ==
    /\ pc[t] = "load_unmarshal"
    /\ LET r == Unmarshal(body[t], LoadNewConfig(t))
       IN IF r.err # NoErr
          THEN /\ Return(t, LoadResult(t, Nil, r.err))
               /\ UNCHANGED <<heap, passed>>
          ELSE /\ IF config = Nil
                  THEN /\ Len(heap) < MaxSnapshots
                       /\ heap' = Append(heap, r.cfg)
                       /\ passed' = Append(passed, [by |-> "Load", val |-> r.cfg,
                                                     body |-> body[t]])
                       /\ c' = [c EXCEPT ![t] = Len(heap) + 1]
                  ELSE /\ heap' = [heap EXCEPT ![config] = r.cfg]
                       /\ c' = [c EXCEPT ![t] = config]
                       /\ UNCHANGED passed
               /\ pc' = [pc EXCEPT ![t] = "load_update"]
               /\ UNCHANGED <<m, body, url, resp, mark, calls>>
               /\ last' = NoLast
    /\ UNCHANGED <<config, schema, client, stores>>

\* var cfg StoreConfig; json.Unmarshal(body, &cfg); on an error Load returns
\* it and cfg is dropped, otherwise cfg lives on the heap as &cfg
LoadUnmarshal(t) ==
    /\ pc[t] = "load_unmarshal"
    /\ LET r == Unmarshal(body[t], LoadNewConfig(t))
       IN IF r.err # NoErr
          THEN /\ Return(t, LoadResult(t, Nil, r.err))
               /\ UNCHANGED <<heap, passed>>
          ELSE /\ Len(heap) < MaxSnapshots
               /\ heap' = Append(heap, r.cfg)
               /\ passed' = Append(passed, [by |-> "Load", val |-> r.cfg,
                                             body |-> body[t]])
               /\ pc' = [pc EXCEPT ![t] = "load_update"]
               /\ c' = [c EXCEPT ![t] = Len(heap) + 1]
               /\ UNCHANGED <<m, body, url, resp, mark, calls>>
               /\ last' = NoLast
    /\ UNCHANGED <<config, schema, client, stores>>

\* a faulty Load: a snapshot decoded before the held one is not published
LoadUpdateConfigKeepsNewer(t) ==
    /\ pc[t] = "load_update"
    /\ IF c[t] < config
       THEN UNCHANGED <<config, heap, stores>>
       ELSE UpdateConfigBody(t) /\ stores' = Stored(t)
    /\ Return(t, LoadResult(t, c[t], NoErr))
    /\ UNCHANGED <<schema, client, passed>>

\* m.UpdateConfig(&cfg); return nil
LoadUpdateConfig(t) ==
    /\ pc[t] = "load_update"
    /\ UpdateConfigBody(t)
    /\ stores' = Stored(t)
    /\ Return(t, LoadResult(t, c[t], NoErr))
    /\ UNCHANGED <<schema, client, passed>>

\* the histories that a specification does not keep
Unnoted == UNCHANGED <<fetched, seen>>

\* the goroutines call UpdateConfig, GetStoreConfig and Load on the manager;
\* every Load asks the same endpoint, which answers 200 OK
Next ==
    \E t \in Threads :
        \/ CallUpdateConfig(t) /\ Unnoted
        \/ UpdateConfig(t) /\ Unnoted
        \/ CallGetStoreConfig(t) /\ Unnoted
        \/ GetStoreConfigCheck(t) /\ Unnoted
        \/ GetStoreConfigLoad(t) /\ Unnoted
        \/ CallLoad(t, Address1) /\ Unnoted
        \/ LoadGet(t, StatusOK) /\ Unnoted
        \/ LoadReadAll(t) /\ Unnoted
        \/ LoadUnmarshal(t) /\ Unnoted
        \/ LoadUpdateConfig(t) /\ Unnoted

Spec == Init /\ [][Next]_vars

\* history: fetched after a step of goroutine t, which has completed a fetch,
\* decoded what it fetched into a snapshot, or failed to decode it
NoteFetched(t) ==
    /\ fetched' =
          IF pc[t] = "load_read" /\ pc'[t] = "load_unmarshal"
          THEN [t |-> t, ref |-> Nil]
          ELSE IF pc[t] = "load_unmarshal" /\ fetched.t = t
          THEN (IF pc'[t] = "load_update" THEN [t |-> 0, ref |-> c'[t]] ELSE NoFetch)
          ELSE fetched
    /\ UNCHANGED seen

\* the goroutines call Load on the manager; the endpoint answers with any
\* status
NextLoad ==
    \E t \in Threads :
        \/ CallLoad(t, Address1) /\ NoteFetched(t)
        \/ \E status \in StatusCodes : LoadGet(t, status) /\ NoteFetched(t)
        \/ LoadReadAll(t) /\ NoteFetched(t)
        \/ LoadUnmarshal(t) /\ NoteFetched(t)
        \/ LoadUpdateConfig(t) /\ NoteFetched(t)

SpecLoad == Init /\ [][NextLoad]_vars

\* the manager is not built yet
InitNew ==
    /\ schema = ""
    /\ client = "none"
    /\ NoCalls

\* the manager is built, then the goroutines call Load on it, with any
\* address
NextNew ==
    \/ \E s \in SecurityConfigs : NewStoreConfigManager(s) /\ Unnoted
    \/ \E t \in Threads :
          \/ \E statusAddress \in Addresses :
                Built /\ CallLoad(t, statusAddress) /\ Unnoted
          \/ LoadGet(t, StatusOK) /\ Unnoted
          \/ LoadReadAll(t) /\ Unnoted
          \/ LoadUnmarshal(t) /\ Unnoted
          \/ LoadUpdateConfig(t) /\ Unnoted

SpecNew == InitNew /\ [][NextNew]_vars

\* history: seen after a step in which a GetStoreConfig on the manager may
\* have returned
NoteSeen ==
    /\ seen' = IF last'.op = "Get" /\ last'.m = Mgr
               THEN [seen EXCEPT ![last'.t] = [before |-> @.now, now |-> last'.val]]
               ELSE seen
    /\ UNCHANGED fetched

\* the goroutines call UpdateConfig and GetStoreConfig on the manager
NextReads ==
    \E t \in Threads :
        \/ CallUpdateConfig(t) /\ NoteSeen
        \/ UpdateConfig(t) /\ NoteSeen
        \/ CallGetStoreConfig(t) /\ NoteSeen
        \/ GetStoreConfigCheck(t) /\ NoteSeen
        \/ GetStoreConfigLoad(t) /\ NoteSeen

\* the manager has been built, and holds nothing or holds a snapshot that an
\* UpdateConfig stored before the goroutines' calls
InitReads ==
    /\ \E s \in SecurityConfigs :
          /\ schema = NewSchema(s)
          /\ client = NewClient(s)
    /\ \/ NoCalls
       \/ /\ \E in \in UpdateInputs :
                /\ heap = <<in>>
                /\ passed = <<[by |-> "Update", val |-> in, body |-> NotJSON]>>
          /\ config = 1
          /\ stores = <<1>>
          /\ Idle

SpecReads == InitReads /\ [][NextReads]_vars

\* the key counts a StoreConfig is given: the ends of the range of int, the
\* counts next to them, zero and its neighbours, and an ordinary count
KeyCounts == {MinInt, MinInt + 1, -1, 0, 1, 5000, MaxInt}

\* a StoreConfig with any key counts has been built, and no call has begun
InitKeys ==
    /\ schema = "http"
    /\ client = "plain"
    /\ config = Nil
    /\ \E maxKeys \in KeyCounts, splitKeys \in KeyCounts :
          heap = << [ZeroStoreConfig EXCEPT !.RegionMaxKeys = maxKeys,
                                           !.RegionSplitKeys = splitKeys] >>
    /\ stores = << >>
    /\ passed = << >>
    /\ Idle

\* ref.GetRegionMaxKeys() is called and returns
CallGetRegionMaxKeys(ref) ==
    /\ last' = [NoLast EXCEPT !.op = "GetRegionMaxKeys", !.c = ref,
                              !.val = GetRegionMaxKeys(ref)]
    /\ UNCHANGED <<config, schema, client, heap, stores, passed, fetched, seen,
                   pc, m, c, body, url, resp, mark, calls>>

\* ref.GetRegionSplitKeys() is called and returns
CallGetRegionSplitKeys(ref) ==
    /\ last' = [NoLast EXCEPT !.op = "GetRegionSplitKeys", !.c = ref,
                              !.val = GetRegionSplitKeys(ref)]
    /\ UNCHANGED <<config, schema, client, heap, stores, passed, fetched, seen,
                   pc, m, c, body, url, resp, mark, calls>>

\* the key getters are called on the StoreConfig and on a nil *StoreConfig
NextKeys ==
    \E ref \in 0..1 :
        \/ CallGetRegionMaxKeys(ref)
        \/ CallGetRegionSplitKeys(ref)

SpecKeys == InitKeys /\ [][NextKeys]_vars

TypeOK ==
    /\ config \in 0..Len(heap)
    /\ Len(heap) <= MaxSnapshots
    /\ Len(passed) = Len(heap)

(* ------------------------------ properties ---------------------------- *)

\* the reference stored by store number k; Nil before the first store
StoreAt(k) == IF k = 0 THEN Nil ELSE stores[k]

\* the call that has just returned is a GetStoreConfig on the manager
GotFromMgr == last.op = "Get" /\ last.m = Mgr

\* goroutine t takes a step (every step of a goroutine moves its pc)
Steps(t) == pc'[t] # pc[t]

\* C1: every value GetStoreConfig returns is nil or a reference that a store
\* published, and the object behind a published reference holds at all
\* times, field for field, the value that one UpdateConfig call was handed
\* (by its caller or by the Load that decoded it): no reader sees fields of
\* two calls.
C1_WholeSnapshot ==
    /\ last.op = "Get" /\ last.val # Nil =>
          /\ last.val \in DOMAIN heap
          /\ \E k \in 1..Len(stores) : stores[k] = last.val
          /\ heap[last.val] = passed[last.val].val
    /\ \A k \in 1..Len(stores) :
          stores[k] # Nil => heap[stores[k]] = passed[stores[k]].val

\* a reader gets a snapshot from a call during which a store happened, and
\* two different snapshots have been stored
C1_Witness ==
    /\ GotFromMgr
    /\ last.val # Nil
    /\ last.from < last.to
    /\ Len(stores) = 2
    /\ heap[stores[1]] # heap[stores[2]]

\* C2: a GetStoreConfig call on the manager that begins after store number
\* k, made by an UpdateConfig call with a non-nil snapshot s, and returns
\* before any later store, returns s; failed Loads and UpdateConfig(nil)
\* calls in between are no stores and do not change that.
C2_ReadsLastUpdate ==
    \A k \in 1..Len(stores) :
        /\ GotFromMgr
        /\ last.from = k
        /\ last.to = k
        /\ stores[k] # Nil
        /\ passed[stores[k]].by = "Update"
        => last.val = stores[k]

\* a reader gets s after UpdateConfig(s) while another goroutine's Load is
\* about to make the next store
C2_Witness ==
    /\ GotFromMgr
    /\ last.from = last.to
    /\ last.val # Nil
    /\ passed[last.val].by = "Update"
    /\ \E u \in Threads : pc[u] = "load_update"

\* C3: a Load whose GET or whose body read fails returns that error, and no
\* step of the call up to there writes the slot or a snapshot: the slot holds
\* after the failing step what it held before it, loaded or not.
C3_TransportFailure ==
    [][\A t \in Threads :
         /\ pc[t] \in {"load_get", "load_read"} /\ pc'[t] = "idle" =>
                /\ last'.t = t
                /\ last'.op = "Load"
                /\ last'.err \in {"get", "read"}
                /\ last'.c = Nil
         /\ (pc[t] \in {"load_get", "load_read"} \/ pc'[t] = "load_get") /\ Steps(t) =>
                /\ config' = config
                /\ heap' = heap
                /\ stores' = stores]_vars

\* a Load fails in the transport while a snapshot is held
C3_Witness ==
    /\ last.op = "Load"
    /\ last.err \in {"get", "read"}
    /\ config # Nil

\* the bodies that do not decode as the document: no JSON at all, or a
\* member of the wrong JSON type
Malformed(b) == b \in {NotJSON, DocTypeErr}

\* C4: a Load whose body is malformed returns a decode error at the decode
\* step and that step writes neither the slot nor a snapshot; and no stored
\* snapshot that came from a Load was decoded from a malformed body.
C4_DecodeFailure ==
    /\ [](\A k \in 1..Len(stores) :
            stores[k] # Nil /\ passed[stores[k]].by = "Load" =>
                ~Malformed(passed[stores[k]].body))
    /\ [][\A t \in Threads :
            pc[t] = "load_unmarshal" /\ Malformed(body[t]) /\ Steps(t) =>
                /\ pc'[t] = "idle"
                /\ last'.t = t
                /\ last'.op = "Load"
                /\ last'.err \in {"syntax", "type"}
                /\ config' = config
                /\ heap' = heap
                /\ stores' = stores]_vars

\* a Load fails to decode a body that has a well-formed member, while a
\* snapshot is held
C4_Witness ==
    /\ last.op = "Load"
    /\ last.err = "type"
    /\ config # Nil

\* C5: no step of an UpdateConfig call whose argument or whose receiver is
\* nil writes the slot or a snapshot, whatever the slot holds, and the call
\* returns normally.
C5_UpdateNilNoOp ==
    [][\A t \in Threads :
         pc[t] = "update" /\ (c[t] = Nil \/ m[t] = Nil) /\ Steps(t) =>
             /\ config' = config
             /\ heap' = heap
             /\ pc'[t] = "idle"
             /\ last'.t = t
             /\ last'.op = "Update"
             /\ last'.err = NoErr]_vars

\* UpdateConfig(nil) returns on the manager while a snapshot is held
C5_Witness ==
    /\ last.op = "Update"
    /\ last.c = Nil
    /\ last.m = Mgr
    /\ config # Nil

\* C6: the slot is nil exactly as long as no store has happened, it never
\* becomes nil again, and a GetStoreConfig on the manager returns nil only
\* if it began before the first store and always if it returned before it.
C6_NoWayBack ==
    /\ [](config = Nil <=> stores = << >>)
    /\ [](GotFromMgr =>
            /\ last.val = Nil => last.from = 0
            /\ last.to = 0 => last.val = Nil)
    /\ [][config # Nil => config' # Nil]_vars

\* a GetStoreConfig that began after the first store and ran while the
\* snapshot was replaced gets a snapshot
C6_Witness ==
    /\ GotFromMgr
    /\ last.from = 1
    /\ last.to = 2
    /\ last.val # Nil

\* what the document b says field f of the snapshot is: its value where the
\* member is there, the zero value where it is missing
DocumentField(b, f) ==
    IF JSONKey(f) \in DOMAIN b.fields
    THEN (IF f \in {"RegionMaxSize", "RegionSplitSize"}
          THEN b.fields[JSONKey(f)].s
          ELSE b.fields[JSONKey(f)].n)
    ELSE (IF f \in {"RegionMaxSize", "RegionSplitSize"} THEN EmptyText ELSE 0)

\* C7: when a Load returns without error, the slot holds the snapshot it
\* stored, and that snapshot holds in each field what the document says and
\* nothing of the snapshot held before.
C7_TotalReplace ==
    last.op = "Load" /\ last.err = NoErr =>
        /\ last.c # Nil
        /\ \A f \in FieldNames :
              heap[last.c][f] = DocumentField(passed[last.c].body, f)
        /\ stores[last.to] = last.c
        /\ config = last.c

\* a Load replaces a snapshot that has a non-zero field by one decoded from a
\* document without that member
C7_Witness ==
    \E f \in FieldNames :
        /\ last.op = "Load" /\ last.err = NoErr
        /\ last.to = 2
        /\ heap[stores[1]][f] # ZeroStoreConfig[f]
        /\ JSONKey(f) \notin DOMAIN passed[last.c].body.fields

\* C8: the slot always holds the reference of the latest store, whichever
\* call began first, and what a GetStoreConfig on the manager returns is the
\* latest store of some moment of that call.
C8_LastStoreWins ==
    /\ config = StoreAt(Len(stores))
    /\ GotFromMgr =>
          \E j \in last.from .. last.to : last.val = StoreAt(j)

\* of two storing calls that overlapped, the one that began before the
\* other's store stores last, and the slot holds its snapshot
C8_Witness ==
    /\ last.op \in {"Load", "Update"}
    /\ last.c # Nil
    /\ last.from = 0
    /\ last.to = 2
    /\ config = last.c

\* C9: a goroutine inside GetStoreConfig can always take its next step,
\* whatever the other goroutines are doing, and the call returns after at
\* most two steps of its own: the check, then the load.
C9_NonBlocking ==
    /\ [](\A t \in Threads :
            /\ pc[t] = "get_check" => ENABLED GetStoreConfigCheck(t)
            /\ pc[t] = "get_load" => ENABLED GetStoreConfigLoad(t))
    /\ [][\A t \in Threads :
            /\ pc[t] = "get_check" /\ Steps(t) => pc'[t] \in {"get_load", "idle"}
            /\ pc[t] = "get_load" /\ Steps(t) => pc'[t] = "idle"]_vars

\* a GetStoreConfig begins and returns a snapshot while another goroutine's
\* Load, begun before it, still waits for its response, or while a writer
\* that began before it stands between building its snapshot and storing it
C9_Witness ==
    /\ GotFromMgr
    /\ last.val # Nil
    /\ \E w \in Threads :
          /\ pc[w] \in {"load_get", "update"}
          /\ m[w] = Mgr
          /\ mark[w] < last.from

SizeInMB(text) ==
    CASE text = T200MB -> 200
      [] text = T100MB -> 100
      [] text = T1GB -> 1024
      [] text = T512KB -> 0

\* what the four accessors give for a snapshot decoded from document b: the
\* member's value where the document has the member, the default where not
DocumentAccessors(b) ==
    [MaxSize |-> IF "region-max-size" \in DOMAIN b.fields
                 THEN SizeInMB(b.fields["region-max-size"].s) ELSE 144,
     SplitSize |-> IF "region-split-size" \in DOMAIN b.fields
                   THEN SizeInMB(b.fields["region-split-size"].s) ELSE 96,
     MaxKeys |-> IF "region-max-keys" \in DOMAIN b.fields
                 THEN b.fields["region-max-keys"].n ELSE 1440000,
     SplitKeys |-> IF "region-split-keys" \in DOMAIN b.fields
                   THEN b.fields["region-split-keys"].n ELSE 960000]

\* the four accessors applied to reference ref
Accessors(ref) ==
    [MaxSize |-> GetRegionMaxSize(ref), SplitSize |-> GetRegionSplitSize(ref),
     MaxKeys |-> GetRegionMaxKeys(ref), SplitKeys |-> GetRegionSplitKeys(ref)]

\* C11: the accessors applied to the snapshot a successful Load has just
\* published, and to a snapshot GetStoreConfig returns that a Load published,
\* give for each field the value of the document's member (sizes in
\* megabytes, key counts as given) and the default for each missing member;
\* for the document with region-max-size "200MB" and region-max-keys 5000
\* they give 200, 5000, 96 and 960000.
C11_EndToEnd ==
    /\ last.op = "Load" /\ last.err = NoErr =>
          /\ Accessors(last.c) = DocumentAccessors(passed[last.c].body)
          /\ passed[last.c].body = DocPartial =>
                Accessors(last.c) = [MaxSize |-> 200, MaxKeys |-> 5000,
                                     SplitSize |-> 96, SplitKeys |-> 960000]
    /\ GotFromMgr /\ last.val # Nil /\ passed[last.val].by = "Load" =>
          Accessors(last.val) = DocumentAccessors(passed[last.val].body)

\* GetStoreConfig returns the snapshot a Load decoded from the document with
\* region-max-size "200MB" and region-max-keys 5000, which replaced a
\* snapshot that had all four fields set
C11_Witness ==
    /\ GotFromMgr
    /\ last.val # Nil
    /\ passed[last.val].body = DocPartial
    /\ Len(stores) = 2
    /\ stores[2] = last.val
    /\ passed[stores[1]].by = "Update"

\* C12: NewStoreConfigManager gives a manager for every security
\* configuration: with none the scheme is http and the client plain; with
\* one that converts to a TLS configuration the scheme is https and the
\* client's transport carries that configuration; with one whose conversion
\* fails the scheme is http and the client plain.  Every Load of the manager
\* is about to request, or has requested, <scheme>://<address>/config with
\* the manager's scheme.
C12_SchemeSelection ==
    /\ ~Built => \A s \in SecurityConfigs : ENABLED NewStoreConfigManager(s)
    /\ last.op = "New" =>
          /\ Built
          /\ last.sec = "nil" => schema = "http" /\ client = "plain"
          /\ last.sec = "valid" => schema = "https" /\ client = "tls"
          /\ last.sec = "invalid" => schema = "http" /\ client = "plain"
    /\ \A t \in Threads :
          pc[t] \in {"load_get", "load_read", "load_unmarshal", "load_update"} =>
              /\ Built
              /\ \E a \in Addresses : url[t] = <<schema, "://", a, "/config">>

\* a manager built from a valid security configuration is about to request
\* https://tikv-2:20180/config through the TLS client
C12_Witness ==
    \E t \in Threads :
        /\ pc[t] = "load_get"
        /\ url[t] = <<"https", "://", "tikv-2:20180", "/config">>
        /\ client = "tls"


(* ------------------------------- C13 --------------------------------- *)

\* every goroutine's call has returned
AllReturned == \A t \in Threads : pc[t] = "idle"

\* C13 as stated: once the racing Loads have returned successfully, the slot
\* holds the snapshot of the Load whose fetch (the request and the whole
\* body read) completed last.
C13_LastFetchWins ==
    AllReturned /\ fetched.ref # Nil => config = fetched.ref

\* C13, amended: once the racing Loads have returned, the slot holds the
\* snapshot of the Load whose atomic store happened last, and a Load that
\* returns without error is that Load, whichever fetch completed last and
\* whichever Load began last.
C13_LastLoadStoreWins ==
    /\ AllReturned /\ Len(stores) > 0 => config = stores[Len(stores)]
    /\ last.op = "Load" /\ last.err = NoErr =>
          /\ Len(stores) > 0
          /\ stores[Len(stores)] = last.c
          /\ config = last.c

\* two Loads raced and both returned without error; the one whose fetch
\* completed first stored last, and the slot holds its snapshot, not the
\* snapshot of the fetch that completed last
C13_Witness ==
    /\ AllReturned
    /\ Len(stores) = 2
    /\ last.op = "Load" /\ last.err = NoErr
    /\ fetched.ref = stores[1]
    /\ config = stores[2]
    /\ config # fetched.ref


(* ------------------------------- C14 --------------------------------- *)

\* the split thresholds of the snapshot at ref lie below its max thresholds
SplitBelowMax(ref) ==
    /\ GetRegionSplitKeys(ref) < GetRegionMaxKeys(ref)
    /\ GetRegionSplitSize(ref) < GetRegionMaxSize(ref)

\* C14 as stated: for every snapshot stored by a Load or an UpdateConfig the
\* split thresholds lie below the max thresholds.
C14_SplitBelowMax ==
    \A k \in 1..Len(stores) : SplitBelowMax(stores[k])

\* C14, amended: the split thresholds lie below the max thresholds while no
\* snapshot is held and for every stored snapshot in which none of the four
\* fields is set; a snapshot with fields set is stored as it was decoded or
\* passed, whatever the order of its thresholds.
C14_UnsetSplitBelowMax ==
    /\ SplitBelowMax(Nil)
    /\ \A k \in 1..Len(stores) :
          /\ heap[stores[k]] = ZeroStoreConfig => SplitBelowMax(stores[k])
          /\ heap[stores[k]] = passed[stores[k]].val

\* a Load has stored a snapshot with no field set, and a Load has stored one
\* whose max key count lies below its split key count
C14_Witness ==
    /\ Len(stores) = 2
    /\ heap[stores[1]] = ZeroStoreConfig
    /\ config = stores[2]
    /\ GetRegionMaxKeys(config) < GetRegionSplitKeys(config)


(* ------------------------------- C15 --------------------------------- *)

\* the key getter that returned in the last step was called on a StoreConfig
\* whose field, KeyField, is not zero
KeyGetterReturned ==
    /\ last.op \in {"GetRegionMaxKeys", "GetRegionSplitKeys"}
    /\ last.c # Nil

KeyField ==
    IF last.op = "GetRegionMaxKeys"
    THEN heap[last.c].RegionMaxKeys
    ELSE heap[last.c].RegionSplitKeys

\* C15 as stated: on a StoreConfig whose key count is not zero, negative
\* or near the ends of the range of int, GetRegionMaxKeys and
\* GetRegionSplitKeys return the key count itself.
C15_KeysValueItself ==
    KeyGetterReturned /\ KeyField # 0 => last.val = KeyField

\* C15, amended: on a StoreConfig whose key count is positive, up to the
\* largest int, the key getters return the key count itself; on one whose
\* key count v is negative, down to the least int, they return v + 2^64.
C15_KeysValueOrWrapped ==
    KeyGetterReturned =>
        /\ KeyField > 0 => last.val = KeyField
        /\ KeyField < 0 => last.val = KeyField + Wrap
        /\ last.val > 0

\* GetRegionSplitKeys has returned 2^64 - 1 on a StoreConfig whose split key
\* count is -1 and whose max key count is the largest int
C15_Witness ==
    /\ KeyGetterReturned
    /\ last.op = "GetRegionSplitKeys"
    /\ heap[last.c].RegionSplitKeys = -1
    /\ heap[last.c].RegionMaxKeys = MaxInt
    /\ last.val = Wrap - 1


(* ------------------------------- C16 --------------------------------- *)

\* the references that have been stored into the slot
Published == {stores[k] : k \in 1..Len(stores)}

\* C16: every StoreConfig object still has the field values it was created
\* with, stored or not and held or replaced; and the object a Load is about
\* to store is a new one, in no slot and in no other call's hands, that
\* already holds the whole decoded document.
C16_BuiltThenImmutable ==
    /\ Len(passed) = Len(heap)
    /\ \A r \in 1..Len(heap) : heap[r] = passed[r].val
    /\ \A t \in Threads :
          pc[t] = "load_update" =>
              /\ c[t] \in 1..Len(heap)
              /\ c[t] \notin Published
              /\ c[t] # config
              /\ \A u \in Threads \ {t} : c[u] # c[t]
              /\ passed[c[t]].by = "Load"
              /\ heap[c[t]] = Unmarshal(body[t], ZeroStoreConfig).cfg
              /\ \A f \in FieldNames :
                    heap[c[t]][f] = DocumentField(body[t], f)

\* a Load is about to store its decoded snapshot over a held one, which a
\* GetStoreConfig may have returned; after the Load has stored, the replaced
\* snapshot has the field values it had
C16_Witness ==
    /\ Len(stores) = 2
    /\ last.op = "Load" /\ last.err = NoErr
    /\ config = stores[2]
    /\ stores[1] # config
    /\ passed[stores[1]].by = "Update"
    /\ heap[stores[1]] \in UpdateInputs
    /\ heap[config] # heap[stores[1]]


(* ------------------------------- C17 --------------------------------- *)

\* C17: a Load holds an open response body from the moment its request is
\* answered until it returns, and at no other time; a Load that returns
\* after its request failed got no response and closes nothing, and a Load
\* that returns on any later path (body read failure, decode failure,
\* success) closes the body once and holds none afterwards.
C17_BodyClosedOnce ==
    /\ \A t \in Threads :
          resp[t].open <=> pc[t] \in {"load_read", "load_unmarshal", "load_update"}
    /\ last.op = "Load" =>
          /\ ~resp[last.t].open
          /\ last.err = "get" => last.closes = 0 /\ last.status = 0
          /\ last.err # "get" => last.closes = 1 /\ last.status # 0
          /\ last.err \in {"get", "read", "syntax", "type", NoErr}

\* a Load has returned the error of the body read, with the body closed,
\* while the other goroutine's Load holds its own open body
C17_Witness ==
    /\ last.op = "Load" /\ last.err = "read"
    /\ last.closes = 1
    /\ ~resp[last.t].open
    /\ \E t \in Threads : resp[t].open /\ pc[t] = "load_unmarshal"


(* ------------------------------- C18 --------------------------------- *)

\* C18: no step of a Load, an UpdateConfig or a GetStoreConfig, whether the
\* call succeeds or fails, changes the scheme or the client of the manager,
\* and every Load in flight has built its URL with the manager's scheme.
C18_SchemeFixed ==
    [][/\ schema' = schema
       /\ client' = client
       /\ \A t \in Threads :
             pc'[t] \in {"load_get", "load_read", "load_unmarshal", "load_update"}
                 => url'[t][1] = schema]_vars

\* on a manager built with a TLS configuration, after an earlier call, a
\* Load has built an https URL while an UpdateConfig is in flight
C18_Witness ==
    /\ schema = "https" /\ client = "tls"
    /\ calls >= 2
    /\ \E t \in Threads : pc[t] = "load_get" /\ url[t][1] = "https"
    /\ \E t \in Threads : pc[t] = "update"


(* ------------------------------- C19 --------------------------------- *)

\* C19: of two successive GetStoreConfig calls on the manager by one
\* goroutine, if the first returned the snapshot of store k (k = 0: nil), the
\* second returned the snapshot of a store j >= k; and after a snapshot the
\* goroutine does not get nil.
C19_MonotonicReads ==
    \A t \in Threads :
        /\ seen[t].before # Nil => seen[t].now # Nil
        /\ \E k \in 0..Len(stores) :
              /\ StoreAt(k) = seen[t].before
              /\ \E j \in k..Len(stores) : StoreAt(j) = seen[t].now

\* GetStoreConfig returned the first snapshot to a goroutine, which called
\* it again; a writer stored the second snapshot during that call, which
\* has returned the second
C19_Witness ==
    /\ last.op = "Get" /\ last.m = Mgr
    /\ Len(stores) = 2
    /\ last.from = 1 /\ last.to = 2
    /\ seen[last.t].before = stores[1]
    /\ seen[last.t].now = stores[2]
    /\ stores[1] # stores[2]


(* ------------------------------- C20 --------------------------------- *)

\* C20: whatever the status code of the response, a Load returns the error
\* of the request exactly when it got no response, returns no other error
\* than those of the request, the body read and the decoding, and goes on to
\* decode whatever body it read; when it returns no error the slot holds the
\* snapshot decoded from the body it read, which decodes without error.
C20_StatusNotConsulted ==
    /\ \A t \in Threads :
          /\ pc[t] \in {"load_read", "load_unmarshal", "load_update"} =>
                resp[t].status \in StatusCodes
          /\ pc[t] = "load_update" =>
                /\ Unmarshal(body[t], ZeroStoreConfig).err = NoErr
                /\ heap[c[t]] = Unmarshal(body[t], ZeroStoreConfig).cfg
          /\ pc[t] = "load_unmarshal" /\ Len(heap) < MaxSnapshots =>
                ENABLED LoadUnmarshal(t)
    /\ last.op = "Load" =>
          /\ last.err \in {"get", "read", "syntax", "type", NoErr}
          /\ last.err = "get" <=> last.status = 0
          /\ last.err = NoErr =>
                /\ config = last.c
                /\ passed[last.c].by = "Load"
                /\ Unmarshal(passed[last.c].body, ZeroStoreConfig) =
                      [err |-> NoErr, cfg |-> heap[last.c]]

\* a response with status 500 whose body is an empty JSON object: the Load
\* has returned no error and has replaced a held snapshot, which had fields
\* set, by one with none set
C20_Witness ==
    /\ last.op = "Load" /\ last.err = NoErr
    /\ last.status = StatusInternalServerError
    /\ Len(stores) = 2
    /\ config = stores[2]
    /\ passed[config].body = DocEmpty
    /\ heap[config] = ZeroStoreConfig
    /\ heap[stores[1]] # ZeroStoreConfig

====
